---- MODULE Spec2Model ----
(***************************************************************************)
(* Friendsgiving menu service: a file-backed menu (Store) and a registry   *)
(* of subscriber channels (Broadcaster).  Two implementations live in the  *)
(* repository: package app (type App, listed in src/README.md from line    *)
(* 75) and the monolithic server src/main.go.  Both are modelled over the  *)
(* same state; SpecApp, SpecMono and SpecBcast are their specifications.   *)
(***************************************************************************)
EXTENDS Integers, Sequences, FiniteSets, TLC

(* ------------------------------ bounds -------------------------------- *)

\* requests (list, add, remove) accepted in one run
MaxReqs == 2

(* -------------------------- program constants ------------------------- *)

\* make(chan []byte, 5) in StreamMenu, streamMenu and ObserveMenuUpdates
StreamChanCap == 5
\* make(chan []byte, 1) in the tests of the monolithic server
TestChanCap == 1
\* the reading of time.Now().UnixNano() when the run starts (any value)
Now0 == 10

(* ------------------------------- tasks -------------------------------- *)

\* goroutines serving ordinary requests
Reqs == {"r1", "r2"}
\* goroutines serving one streaming connection each
Streams == {"s1"}
\* callers of ObserveMenuUpdates (App) or of addClient/removeClient (tests)
Observers == {"o1"}
\* "no holder" of a lock
None == "none"

(* ------------------------------ values -------------------------------- *)

\* type MenuItem struct { ID, Dish, Who string }
MenuItem(id, dish, who) == [id |-> id, dish |-> dish, who |-> who]

\* a Go slice of MenuItem: nil, or a (possibly empty) backing sequence
NilMenu == [nil |-> TRUE, items |-> <<>>]
Slice(items) == [nil |-> FALSE, items |-> items]

\* var defaultMenu
defaultMenu ==
    Slice(<< MenuItem("1763786780838787402", "Turkey", "Will"),
             MenuItem("1763786910210202650", "Dessert", "Sarah") >>)

\* the menu the delete tests start from
testMenu ==
    Slice(<< MenuItem("1", "Pumpkin Pie", "Alex"),
             MenuItem("2", "Cranberry Sauce", "Maya") >>)

\* a byte string, by the JSON text it spells: kind is "array", "null",
\* "empty" (zero bytes) or "malformed"; fmt is the layout of the text
Bytes(kind, items, fmt) == [kind |-> kind, items |-> items, fmt |-> fmt]
EmptyBytes == Bytes("empty", <<>>, "raw")
MalformedBytes == Bytes("malformed", <<>>, "raw")
\* the literal []byte("[]")
EmptyArrayBytes == Bytes("array", <<>>, "compact")

\* encoding/json: a nil slice encodes as null, any other slice as an array
JsonEncode(menu, fmt) ==
    Bytes(IF menu.nil THEN "null" ELSE "array", menu.items, fmt)
\* json.MarshalIndent(menu, "", "    ")
MarshalIndent(menu) == JsonEncode(menu, "indent")
\* json.Marshal(menu)
Marshal(menu) == JsonEncode(menu, "compact")
\* json.NewEncoder(w).Encode(menu): compact text and a newline
Encode(menu) == JsonEncode(menu, "line")

\* json.Unmarshal(data, &menu): null sets the slice to nil, an array fills
\* it, anything else is an error and leaves it as it was
Unmarshal(data, menu) ==
    CASE data.kind = "array" -> [err |-> FALSE, menu |-> Slice(data.items)]
      [] data.kind = "null"  -> [err |-> FALSE, menu |-> NilMenu]
      [] OTHER               -> [err |-> TRUE, menu |-> menu]

\* the backing file: absent, or present with its bytes
NoFile == [exists |-> FALSE, data |-> EmptyBytes]
FileOf(data) == [exists |-> TRUE, data |-> data]

\* os.ReadFile(menuFile); ioerr is an injected failure other than "not exist"
ReadFile(f, ioerr) ==
    IF ioerr THEN [err |-> "io", data |-> EmptyBytes]
    ELSE IF ~f.exists THEN [err |-> "notexist", data |-> EmptyBytes]
    ELSE [err |-> "none", data |-> f.data]

\* strconv.FormatInt(n, 10)
Digit(d) == <<"0", "1", "2", "3", "4", "5", "6", "7", "8", "9">>[d + 1]
RECURSIVE FormatNat(_)
FormatNat(n) == IF n < 10 THEN Digit(n) ELSE FormatNat(n \div 10) \o Digit(n % 10)
FormatInt(n) == IF n < 0 THEN "-" \o FormatNat(0 - n) ELSE FormatNat(n)

\* a request body as json.NewDecoder(r.Body).Decode(&newItem) sees it:
\* ok is whether it decodes, the rest are the fields it carries
Body(ok, id, dish, who) == [ok |-> ok, id |-> id, dish |-> dish, who |-> who]
Bodies ==
    { Body(FALSE, "", "", ""),
      Body(TRUE, "", "", ""),
      Body(TRUE, "", "Cornbread", ""),
      Body(TRUE, "7", "Cornbread", "Jess") }

\* the id query values of remove requests
DeleteIds == {"", "1", FormatInt(Now0)}

\* payloads handed to publish when the Broadcaster runs on its own
Payloads == {MarshalIndent(Slice(<<>>)), MarshalIndent(NilMenu)}

(* --------------------------- Store helpers ----------------------------- *)

\* a variant of ValidBody that forgets the check of Who
ValidBodyNoWho(b) == b.ok /\ b.dish # ""

\* newItem.Dish == "" || newItem.Who == "" is rejected; so is a body that
\* does not decode
ValidBody(b) == b.ok /\ b.dish # "" /\ b.who # ""

\* a variant of ValidId that accepts every id
ValidIdAny(id) == TRUE

\* id == "" is rejected
ValidId(id) == id # ""

\* a variant of readMenu without the check len(data) == 0
ReadMenuNoLenCheck(f, ioerr) ==
    LET r == ReadFile(f, ioerr) IN
    IF r.err = "notexist" THEN [err |-> FALSE, menu |-> Slice(<<>>)]
    ELSE IF r.err # "none" THEN [err |-> TRUE, menu |-> NilMenu]
    ELSE LET u == Unmarshal(r.data, NilMenu) IN
         IF u.err THEN [err |-> TRUE, menu |-> NilMenu] ELSE u

\* App.readMenu, between Lock and Unlock
ReadMenu(f, ioerr) ==
    LET r == ReadFile(f, ioerr) IN
    IF r.err = "notexist" THEN [err |-> FALSE, menu |-> Slice(<<>>)]
    ELSE IF r.err # "none" THEN [err |-> TRUE, menu |-> NilMenu]
    ELSE IF r.data.kind = "empty" THEN [err |-> FALSE, menu |-> Slice(<<>>)]
    ELSE LET u == Unmarshal(r.data, NilMenu) IN
         IF u.err THEN [err |-> TRUE, menu |-> NilMenu] ELSE u

\* the read both handlers of the monolithic server do:
\* data, err := os.ReadFile(menuFile); if err == nil { json.Unmarshal(...) }
MonoReadMenu(f, ioerr) ==
    LET r == ReadFile(f, ioerr) IN
    IF r.err = "none" THEN Unmarshal(r.data, NilMenu).menu ELSE NilMenu

\* menu = append(menu, newItem)
AppendItem(menu, item) == Slice(Append(menu.items, item))

\* var newMenu []MenuItem; for ... if item.ID != id { newMenu = append(...) }
RECURSIVE FilterItems(_, _)
FilterItems(items, id) ==
    IF items = <<>> THEN <<>>
    ELSE IF Head(items).id # id
         THEN <<Head(items)>> \o FilterItems(Tail(items), id)
         ELSE FilterItems(Tail(items), id)
RemoveItem(menu, id) ==
    LET kept == FilterItems(menu.items, id) IN
    IF kept = <<>> THEN NilMenu ELSE Slice(kept)

\* how the os.WriteFile of ensureMenuFile can end: all bytes written, the file
\* not opened, or the write failed after the file was created (nothing or a
\* prefix written); failures are logged and ignored
SeedFaults == {"none", "open", "empty", "prefix"}

\* a variant of ensureMenuFile that writes the default menu over any file
EnsureMenuFileAlways(f, fault) == FileOf(MarshalIndent(defaultMenu))

\* ensureMenuFile: writes the default menu when the file does not exist
EnsureMenuFile(f, fault) ==
    IF f.exists THEN f
    ELSE CASE fault = "none"  -> FileOf(MarshalIndent(defaultMenu))
           [] fault = "open"  -> f
           [] fault = "empty" -> FileOf(EmptyBytes)
           [] OTHER           -> FileOf(MalformedBytes)

(* ------------------------- Broadcaster helpers ------------------------- *)

\* make(chan []byte, cap)
MakeChan(cap) == [buf |-> <<>>, cap |-> cap, closed |-> FALSE]

\* a variant of TrySend that never sends
TrySendDrop(ch, data) == ch

\* a variant of TrySend that makes room in a full buffer by evicting its head
TrySendEvict(ch, data) ==
    IF Len(ch.buf) < ch.cap THEN [ch EXCEPT !.buf = Append(@, data)]
    ELSE [ch EXCEPT !.buf = Append(Tail(@), data)]

\* select { case ch <- data: default: } on an open channel
TrySend(ch, data) ==
    IF Len(ch.buf) < ch.cap THEN [ch EXCEPT !.buf = Append(@, data)] ELSE ch

\* a variant of broadcastMenuUpdate that sends the payload twice
BroadcastMenuUpdateTwice(registered, chs, data) ==
    [c \in DOMAIN chs |->
        IF c \in registered /\ ~chs[c].closed
        THEN TrySend(TrySend(chs[c], data), data) ELSE chs[c]]

\* the loop of broadcastMenuUpdate over the registered channels
BroadcastMenuUpdate(registered, chs, data) ==
    [c \in DOMAIN chs |->
        IF c \in registered /\ ~chs[c].closed THEN TrySend(chs[c], data) ELSE chs[c]]

\* a send on a closed channel panics
BroadcastPanics(registered, chs) == \E c \in registered : chs[c].closed

\* a variant of removeClient that closes the channel and keeps the entry
RemoveClientRegKeep(registered, id) == registered

\* a variant of removeClient that deletes the entry and leaves the channel open
RemoveClientChansOpen(registered, chs, id) == chs

\* removeClient: if ch, ok := clients[id]; ok { close(ch); delete(clients, id) }
RemoveClientReg(registered, id) == registered \ {id}
RemoveClientChans(registered, chs, id) ==
    IF id \in registered THEN [chs EXCEPT ![id].closed = TRUE] ELSE chs

\* a variant of removeClient that closes the channel whether or not the
\* entry is there
RemoveClientPanicsUnguarded(registered, chs, id) ==
    id \in DOMAIN chs /\ chs[id].closed

\* removeClient: close(ch) on the entry found; close of a closed channel panics
RemoveClientPanics(registered, chs, id) ==
    id \in registered /\ chs[id].closed

(* ------------------------------- state -------------------------------- *)

VARIABLES
    file,          \* the backing file menuFile
    mu,            \* holder of the Store lock mu, or None
    clientsMu,     \* holder of the registry lock clientsMu, or None
    clients,       \* keys of the clients map
    chans,         \* chans[id]: the channel registered under id (kept after removal)
    nextClientID,  \* nextClientID
    now,           \* the latest reading of time.Now().UnixNano()
    reqs,          \* per request goroutine: position, request, locals
    strm,          \* per streaming goroutine: position, client id, events sent
    obsv,          \* per observer: position, client id, cleanup called
    nreq,          \* requests accepted so far
    last,          \* the request answered last: what it asked and what it got
    hist,          \* the mutations that returned success, in order of return
    torn,          \* a failed write has left the file truncated
    panicked,      \* a goroutine panicked (send on or close of a closed channel)
    file0          \* the backing file when the service was constructed

vars == << file, mu, clientsMu, clients, chans, nextClientID, now, reqs, strm,
           obsv, nreq, last, hist, torn, panicked, file0 >>

\* a request goroutine between requests
IdleReq ==
    [ pc |-> "idle", op |-> "none", body |-> Body(FALSE, "", "", ""), id |-> "",
      item |-> MenuItem("", "", ""), menu |-> NilMenu, data |-> EmptyBytes ]

\* no request answered yet
NoAnswer ==
    [ op |-> "none", body |-> Body(FALSE, "", "", ""), id |-> "",
      item |-> MenuItem("", "", ""), resp |-> 0, out |-> EmptyBytes ]

\* a streaming goroutine before its connection arrives
IdleStream == [ pc |-> "idle", id |-> 0, gone |-> FALSE, sent |-> <<>>, resp |-> 0 ]

\* an observer before it subscribes
IdleObserver == [ pc |-> "idle", id |-> 0, cleaned |-> FALSE ]

\* the files the service can be constructed on
PreFiles ==
    { NoFile, FileOf(EmptyArrayBytes), FileOf(Marshal(testMenu)),
      FileOf(EmptyBytes), FileOf(MalformedBytes) }

\* New(menuFile): the fields of App, then ensureMenuFile; in the monolithic
\* server the package variables, then ensureMenuFile in main
Init ==
    /\ \E pre \in PreFiles, fault \in SeedFaults : file = EnsureMenuFile(pre, fault)
    /\ file0 = file
    /\ mu = None
    /\ clientsMu = None
    /\ clients = {}
    /\ chans = <<>>
    /\ nextClientID = 0
    /\ now = Now0
    /\ reqs = [t \in Reqs |-> IdleReq]
    /\ strm = [s \in Streams |-> IdleStream]
    /\ obsv = [o \in Observers |-> IdleObserver]
    /\ nreq = 0
    /\ last = NoAnswer
    /\ hist = <<>>
    /\ torn = FALSE
    /\ panicked = FALSE

\* what a finished request leaves in last
Answer(r, status, out) ==
    [ op |-> r.op, body |-> r.body, id |-> r.id, item |-> r.item,
      resp |-> status, out |-> out ]

\* the handler returns: status and body go to the caller, the locals die
Respond(t, status, out) ==
    /\ reqs' = [reqs EXCEPT ![t] = IdleReq]
    /\ last' = Answer(reqs[t], status, out)

\* the handler goes on with changed locals
Continue(t, r) ==
    /\ reqs' = [reqs EXCEPT ![t] = r]
    /\ last' = last

\* the entry of a successful mutation in hist: what it was, who was
\* registered when it was published, and the ids handed out by then
Done(r, registered, ids) ==
    [op |-> r.op, item |-> r.item, id |-> r.id, to |-> registered, ids |-> ids]

\* groups of variables for UNCHANGED
storeV == << file, mu, torn >>
regV == << clientsMu, clients, chans, nextClientID >>
subsV == << strm, obsv >>
reqV == << reqs, nreq, last, hist >>
envV == << now, panicked, file0 >>

(* ------------------------- request acceptance -------------------------- *)

\* a request is accepted by an idle goroutine
Accept(t) ==
    /\ reqs[t].pc = "idle" /\ nreq < MaxReqs /\ ~panicked
    /\ nreq' = nreq + 1

\* time.Now().UnixNano(): the clock has advanced since the last reading, or not
ClockReadings == {now, now + 1}

\* Decode into newItem, then newItem.ID = strconv.FormatInt(UnixNano, 10)
NewItem(body, clock) == MenuItem(FormatInt(clock), body.dish, body.who)

\* GET: up to the first lock
HandleGetMenu(t, pc) ==
    /\ Accept(t)
    /\ Continue(t, [IdleReq EXCEPT !.op = "get", !.pc = pc])
    /\ UNCHANGED << storeV, regV, subsV, hist, envV >>

\* POST: Decode, the two checks and the id, up to the first lock
HandleAddMenuItem(t, body, pc) ==
    /\ Accept(t)
    /\ LET r == [IdleReq EXCEPT !.op = "add", !.body = body] IN
       IF ValidBody(body)
       THEN \E clock \in ClockReadings :
              /\ now' = clock
              /\ Continue(t, [r EXCEPT !.pc = pc, !.item = NewItem(body, clock)])
       ELSE /\ last' = Answer(r, 400, EmptyBytes)
            /\ UNCHANGED << reqs, now >>
    /\ UNCHANGED << storeV, regV, subsV, hist, panicked, file0 >>

\* DELETE: the id check, up to the first lock
HandleDeleteMenuItem(t, id, pc) ==
    /\ Accept(t)
    /\ LET r == [IdleReq EXCEPT !.op = "del", !.id = id] IN
       IF ValidId(id)
       THEN Continue(t, [r EXCEPT !.pc = pc])
       ELSE /\ last' = Answer(r, 400, EmptyBytes)
            /\ reqs' = reqs
    /\ UNCHANGED << storeV, regV, subsV, hist, envV >>

\* os.WriteFile, first half: the file is opened with O_WRONLY|O_CREATE|O_TRUNC,
\* so from here until the write it is empty
Truncated == FileOf(EmptyBytes)

\* what a failed write can leave in the truncated file: nothing, or a prefix
TornBytes == {EmptyBytes, MalformedBytes}

(* ------------------------- App: request handlers ----------------------- *)

\* readMenu: a.mu.Lock()
AppReadMenuLock(t) ==
    /\ reqs[t].pc = "rlock" /\ mu = None
    /\ mu' = t
    /\ Continue(t, [reqs[t] EXCEPT !.pc = "read"])
    /\ UNCHANGED << file, torn, regV, subsV, nreq, hist, envV >>

\* a variant of readMenu whose caller goes on with a.mu still held
AppReadMenuHoldsLock(t, ioerr) ==
    /\ reqs[t].pc = "read" /\ mu = t
    /\ LET r == ReadMenu(file, ioerr) IN
       IF r.err \/ reqs[t].op = "get"
       THEN /\ Respond(t, IF r.err THEN 500 ELSE 200, IF r.err THEN EmptyBytes ELSE Encode(r.menu))
            /\ mu' = None
       ELSE /\ Continue(t, [reqs[t] EXCEPT !.pc = "wopen",
                              !.menu = IF reqs[t].op = "add"
                                       THEN AppendItem(r.menu, reqs[t].item)
                                       ELSE RemoveItem(r.menu, reqs[t].id)])
            /\ mu' = mu
    /\ UNCHANGED << file, torn, regV, subsV, nreq, hist, envV >>

\* readMenu from os.ReadFile to the deferred Unlock, and what its caller
\* (handleGetMenu, addMenuItem, deleteMenuItem) does with the result
AppReadMenu(t, ioerr) ==
    /\ reqs[t].pc = "read" /\ mu = t
    /\ LET r == ReadMenu(file, ioerr) IN
       IF r.err
       THEN Respond(t, 500, EmptyBytes)
       ELSE CASE reqs[t].op = "get" -> Respond(t, 200, Encode(r.menu))
              [] reqs[t].op = "add" ->
                   Continue(t, [reqs[t] EXCEPT !.pc = "wopen",
                                  !.menu = AppendItem(r.menu, reqs[t].item)])
              [] OTHER ->
                   Continue(t, [reqs[t] EXCEPT !.pc = "wopen",
                                  !.menu = RemoveItem(r.menu, reqs[t].id)])
    /\ mu' = None
    /\ UNCHANGED << file, torn, regV, subsV, nreq, hist, envV >>

\* writeMenu: json.MarshalIndent, then os.WriteFile opens the file
AppWriteMenuOpen(t) ==
    /\ reqs[t].pc = "wopen"
    /\ \E fail \in BOOLEAN :
         IF fail
         THEN /\ Respond(t, 500, EmptyBytes)
              /\ file' = file
         ELSE /\ Continue(t, [reqs[t] EXCEPT !.pc = "wwrite",
                                !.data = MarshalIndent(reqs[t].menu)])
              /\ file' = Truncated
    /\ UNCHANGED << mu, torn, regV, subsV, nreq, hist, envV >>

\* writeMenu: os.WriteFile writes the bytes and closes
AppWriteMenuData(t) ==
    /\ reqs[t].pc = "wwrite"
    /\ \E fail \in BOOLEAN :
         IF fail
         THEN /\ Respond(t, 500, EmptyBytes)
              /\ \E left \in TornBytes : file' = FileOf(left)
              /\ torn' = TRUE
         ELSE /\ Continue(t, [reqs[t] EXCEPT !.pc = "block"])
              /\ file' = FileOf(reqs[t].data)
              /\ torn' = torn
    /\ UNCHANGED << mu, regV, subsV, nreq, hist, envV >>

\* a variant of broadcastMenuUpdate whose sends block: it goes on only when
\* every registered channel has room
BroadcastBlocking(t) ==
    /\ reqs[t].pc = "bsend" /\ clientsMu = t
    /\ \A c \in clients : Len(chans[c].buf) < chans[c].cap
    /\ clientsMu' = None
    /\ chans' = BroadcastMenuUpdate(clients, chans, reqs[t].data)
    /\ hist' = Append(hist, Done(reqs[t], clients, nextClientID))
    /\ UNCHANGED << file, torn, clients, nextClientID, subsV, nreq, now, panicked, file0 >>

\* broadcastMenuUpdate: clientsMu.Lock()
BroadcastLock(t) ==
    /\ reqs[t].pc = "block" /\ clientsMu = None
    /\ clientsMu' = t
    /\ Continue(t, [reqs[t] EXCEPT !.pc = "bsend"])
    /\ UNCHANGED << storeV, clients, chans, nextClientID, subsV, nreq, hist, envV >>

\* broadcastMenuUpdate from the loop to the deferred Unlock
Broadcast(t) ==
    /\ reqs[t].pc = "bsend" /\ clientsMu = t
    /\ clientsMu' = None
    /\ IF BroadcastPanics(clients, chans)
       THEN /\ panicked' = TRUE
            /\ Respond(t, 0, EmptyBytes)
            /\ UNCHANGED << chans, hist >>
       ELSE /\ chans' = BroadcastMenuUpdate(clients, chans, reqs[t].data)
            /\ hist' = Append(hist, Done(reqs[t], clients, nextClientID))
            /\ UNCHANGED panicked
    /\ UNCHANGED << file, torn, clients, nextClientID, subsV, nreq, now, file0 >>

\* what handleAddMenuItem answers after addMenuItem returned the menu
AppAddBody(r) == Encode(r.menu)

\* broadcastMenuUpdate, the return of addMenuItem or deleteMenuItem, and the
\* response of the handler
AppBroadcast(t) ==
    /\ Broadcast(t)
    /\ ~BroadcastPanics(clients, chans) =>
         IF reqs[t].op = "add"
         THEN Respond(t, 201, AppAddBody(reqs[t]))
         ELSE Respond(t, 200, EmptyBytes)
    /\ UNCHANGED mu

(* ----------------------- streams and observers ------------------------- *)

\* nextClientID++ ; clients[nextClientID] = ch
AddClientChans(chs, cap) == Append(chs, MakeChan(cap))

\* StreamMenu / streamMenu up to the call of addClient; without http.Flusher
\* the handler answers 500 and returns
StreamMenu(s, flusher) ==
    /\ strm[s].pc = "idle" /\ ~panicked
    /\ strm' = [strm EXCEPT ![s] =
          IF flusher THEN [IdleStream EXCEPT !.pc = "alock", !.resp = 200]
          ELSE [IdleStream EXCEPT !.pc = "done", !.resp = 500]]
    /\ UNCHANGED << storeV, regV, obsv, reqV, envV >>

\* addClient: clientsMu.Lock()
StreamAddClientLock(s) ==
    /\ strm[s].pc = "alock" /\ clientsMu = None
    /\ clientsMu' = s
    /\ strm' = [strm EXCEPT ![s].pc = "add"]
    /\ UNCHANGED << storeV, clients, chans, nextClientID, obsv, reqV, envV >>

\* a variant of addClient that makes a new registry for the channel
StreamAddClientResets(s, pc) ==
    /\ strm[s].pc = "add" /\ clientsMu = s
    /\ nextClientID' = nextClientID + 1
    /\ clients' = {nextClientID'}
    /\ chans' = AddClientChans(chans, StreamChanCap)
    /\ clientsMu' = None
    /\ strm' = [strm EXCEPT ![s].pc = pc, ![s].id = nextClientID']
    /\ UNCHANGED << storeV, obsv, reqV, envV >>

\* addClient from the increment to the deferred Unlock
StreamAddClient(s, pc) ==
    /\ strm[s].pc = "add" /\ clientsMu = s
    /\ nextClientID' = nextClientID + 1
    /\ clients' = clients \cup {nextClientID'}
    /\ chans' = AddClientChans(chans, StreamChanCap)
    /\ clientsMu' = None
    /\ strm' = [strm EXCEPT ![s].pc = pc, ![s].id = nextClientID']
    /\ UNCHANGED << storeV, obsv, reqV, envV >>

\* App.StreamMenu: readMenu, a.mu.Lock()
AppStreamReadLock(s) ==
    /\ strm[s].pc = "rlock" /\ mu = None
    /\ mu' = s
    /\ strm' = [strm EXCEPT ![s].pc = "read"]
    /\ UNCHANGED << file, torn, regV, obsv, reqV, envV >>

\* what App.StreamMenu sends before its loop: the menu it read, if it read one
AppInitialEvents(r) == IF r.err THEN <<>> ELSE <<Marshal(r.menu)>>

\* App.StreamMenu: the rest of readMenu, then json.Marshal and sendSSE when
\* the read gave no error; then the loop is entered
AppStreamRead(s, ioerr) ==
    /\ strm[s].pc = "read" /\ mu = s
    /\ strm' = [strm EXCEPT ![s].pc = "loop",
                 ![s].sent = AppInitialEvents(ReadMenu(file, ioerr))]
    /\ mu' = None
    /\ UNCHANGED << file, torn, regV, obsv, reqV, envV >>

\* select, case data := <-ch: sendSSE(data)
StreamRecv(s) ==
    /\ strm[s].pc = "loop"
    /\ chans[strm[s].id].buf # <<>>
    /\ strm' = [strm EXCEPT ![s].sent = Append(@, Head(chans[strm[s].id].buf))]
    /\ chans' = [chans EXCEPT ![strm[s].id].buf = Tail(@)]
    /\ UNCHANGED << storeV, clientsMu, clients, nextClientID, obsv, reqV, envV >>

\* the client closes its connection: r.Context() is done from here on
ClientDisconnect(s) ==
    /\ strm[s].pc \notin {"idle", "done"} /\ ~strm[s].gone
    /\ strm' = [strm EXCEPT ![s].gone = TRUE]
    /\ UNCHANGED << storeV, regV, obsv, reqV, envV >>

\* select, case <-r.Context().Done(): return (the deferred removeClient is next)
StreamDone(s) ==
    /\ strm[s].pc = "loop" /\ strm[s].gone
    /\ strm' = [strm EXCEPT ![s].pc = "dlock"]
    /\ UNCHANGED << storeV, regV, obsv, reqV, envV >>

\* removeClient: clientsMu.Lock()
StreamRemoveClientLock(s) ==
    /\ strm[s].pc = "dlock" /\ clientsMu = None
    /\ clientsMu' = s
    /\ strm' = [strm EXCEPT ![s].pc = "remove"]
    /\ UNCHANGED << storeV, clients, chans, nextClientID, obsv, reqV, envV >>

\* a variant of removeClient that closes the channel and keeps the entry
StreamRemoveClientKeepsEntry(s) ==
    /\ strm[s].pc = "remove" /\ clientsMu = s
    /\ chans' = RemoveClientChans(clients, chans, strm[s].id)
    /\ clients' = clients
    /\ clientsMu' = None
    /\ strm' = [strm EXCEPT ![s].pc = "done"]
    /\ UNCHANGED << storeV, nextClientID, obsv, reqV, envV >>

\* removeClient from the lookup to the deferred Unlock; the handler has returned
StreamRemoveClient(s) ==
    /\ strm[s].pc = "remove" /\ clientsMu = s
    /\ chans' = RemoveClientChans(clients, chans, strm[s].id)
    /\ clients' = RemoveClientReg(clients, strm[s].id)
    /\ clientsMu' = None
    /\ strm' = [strm EXCEPT ![s].pc = "done"]
    /\ panicked' = (panicked \/ RemoveClientPanics(clients, chans, strm[s].id))
    /\ UNCHANGED << storeV, nextClientID, obsv, reqV, now, file0 >>

\* ObserveMenuUpdates (or a test's make(chan) and addClient) up to addClient
ObserveMenuUpdates(o) ==
    /\ obsv[o].pc = "idle" /\ ~panicked
    /\ obsv' = [obsv EXCEPT ![o].pc = "alock"]
    /\ UNCHANGED << storeV, regV, strm, reqV, envV >>

\* addClient: clientsMu.Lock()
ObserverAddClientLock(o) ==
    /\ obsv[o].pc = "alock" /\ clientsMu = None
    /\ clientsMu' = o
    /\ obsv' = [obsv EXCEPT ![o].pc = "add"]
    /\ UNCHANGED << storeV, clients, chans, nextClientID, strm, reqV, envV >>

\* a variant of addClient that numbers the channel by the size of the registry
ObserverAddClientReuse(o, cap) ==
    /\ obsv[o].pc = "add" /\ clientsMu = o
    /\ LET id == Cardinality(clients) + 1 IN
         /\ nextClientID' = id
         /\ clients' = clients \cup {id}
         /\ chans' = IF id <= Len(chans)
                      THEN [chans EXCEPT ![id] = MakeChan(cap)]
                      ELSE AddClientChans(chans, cap)
         /\ obsv' = [obsv EXCEPT ![o].pc = "sub", ![o].id = id]
    /\ clientsMu' = None
    /\ UNCHANGED << storeV, strm, reqV, envV >>

\* addClient from the increment to the deferred Unlock, on a channel of capacity cap
ObserverAddClient(o, cap) ==
    /\ obsv[o].pc = "add" /\ clientsMu = o
    /\ nextClientID' = nextClientID + 1
    /\ clients' = clients \cup {nextClientID'}
    /\ chans' = AddClientChans(chans, cap)
    /\ clientsMu' = None
    /\ obsv' = [obsv EXCEPT ![o].pc = "sub", ![o].id = nextClientID']
    /\ UNCHANGED << storeV, strm, reqV, envV >>

\* the observer takes one payload off its channel: <-updates
ObserverRecv(o) ==
    /\ obsv[o].pc = "sub"
    /\ chans[obsv[o].id].buf # <<>>
    /\ chans' = [chans EXCEPT ![obsv[o].id].buf = Tail(@)]
    /\ UNCHANGED << storeV, clientsMu, clients, nextClientID, subsV, reqV, envV >>

\* the cleanup function is called (any number of times): removeClient(id),
\* clientsMu.Lock() is next
ObserverCleanup(o) ==
    /\ obsv[o].pc = "sub"
    /\ obsv' = [obsv EXCEPT ![o].pc = "dlock"]
    /\ UNCHANGED << storeV, regV, strm, reqV, envV >>

\* removeClient: clientsMu.Lock()
ObserverRemoveClientLock(o) ==
    /\ obsv[o].pc = "dlock" /\ clientsMu = None
    /\ clientsMu' = o
    /\ obsv' = [obsv EXCEPT ![o].pc = "remove"]
    /\ UNCHANGED << storeV, clients, chans, nextClientID, strm, reqV, envV >>

\* a variant of removeClient that needs mu while it holds clientsMu
ObserverRemoveClientNeedsMu(o) ==
    /\ obsv[o].pc = "remove" /\ clientsMu = o /\ mu = None
    /\ chans' = RemoveClientChans(clients, chans, obsv[o].id)
    /\ clients' = RemoveClientReg(clients, obsv[o].id)
    /\ clientsMu' = None
    /\ obsv' = [obsv EXCEPT ![o].pc = "sub", ![o].cleaned = TRUE]
    /\ UNCHANGED << storeV, nextClientID, strm, reqV, envV >>

\* removeClient from the lookup to the deferred Unlock
ObserverRemoveClient(o) ==
    /\ obsv[o].pc = "remove" /\ clientsMu = o
    /\ chans' = RemoveClientChans(clients, chans, obsv[o].id)
    /\ clients' = RemoveClientReg(clients, obsv[o].id)
    /\ clientsMu' = None
    /\ obsv' = [obsv EXCEPT ![o].pc = "sub", ![o].cleaned = TRUE]
    /\ panicked' = (panicked \/ RemoveClientPanics(clients, chans, obsv[o].id))
    /\ UNCHANGED << storeV, nextClientID, strm, reqV, now, file0 >>

(* --------------------------- App: specifications ----------------------- *)

AppRequest(t) ==
    \/ HandleGetMenu(t, "rlock")
    \/ \E body \in Bodies : HandleAddMenuItem(t, body, "rlock")
    \/ \E id \in DeleteIds : HandleDeleteMenuItem(t, id, "rlock")
    \/ AppReadMenuLock(t)
    \/ \E ioerr \in BOOLEAN : AppReadMenu(t, ioerr)
    \/ AppWriteMenuOpen(t)
    \/ AppWriteMenuData(t)
    \/ BroadcastLock(t)
    \/ AppBroadcast(t)

AppStream(s) ==
    \/ \E flusher \in BOOLEAN : StreamMenu(s, flusher)
    \/ StreamAddClientLock(s)
    \/ StreamAddClient(s, "rlock")
    \/ AppStreamReadLock(s)
    \/ \E ioerr \in BOOLEAN : AppStreamRead(s, ioerr)
    \/ StreamRecv(s)
    \/ ClientDisconnect(s)
    \/ StreamDone(s)
    \/ StreamRemoveClientLock(s)
    \/ StreamRemoveClient(s)

AppObserver(o) ==
    \/ ObserveMenuUpdates(o)
    \/ ObserverAddClientLock(o)
    \/ ObserverAddClient(o, StreamChanCap)
    \/ ObserverRecv(o)
    \/ ObserverCleanup(o)
    \/ ObserverRemoveClientLock(o)
    \/ ObserverRemoveClient(o)

\* package app serving concurrent requests
NextApp == \E t \in Reqs : AppRequest(t)
SpecApp == Init /\ [][NextApp]_vars

\* package app serving requests one at a time while a client streams
NextAppStream ==
    \/ AppRequest("r1")
    \/ \E s \in Streams : AppStream(s)
SpecAppStream == Init /\ [][NextAppStream]_vars

\* package app serving requests one at a time while an observer listens
NextAppObs ==
    \/ AppRequest("r1")
    \/ \E o \in Observers : AppObserver(o)
SpecAppObs == Init /\ [][NextAppObs]_vars

\* package app serving concurrent requests while an observer listens
NextAppPub ==
    \/ \E t \in Reqs : AppRequest(t)
    \/ \E o \in Observers : AppObserver(o)
SpecAppPub == Init /\ [][NextAppPub]_vars

\* package app serving list and add requests one at a time while a client
\* streams and an observer listens
NextAppSubs ==
    \/ HandleGetMenu("r1", "rlock")
    \/ \E body \in Bodies : HandleAddMenuItem("r1", body, "rlock")
    \/ AppReadMenuLock("r1")
    \/ \E ioerr \in BOOLEAN : AppReadMenu("r1", ioerr)
    \/ AppWriteMenuOpen("r1")
    \/ AppWriteMenuData("r1")
    \/ BroadcastLock("r1")
    \/ AppBroadcast("r1")
    \/ \E s \in Streams : AppStream(s)
    \/ \E o \in Observers : AppObserver(o)
SpecAppSubs == Init /\ [][NextAppSubs]_vars

\* New(menuFile) is called again on the same path (a restart, or a second
\* App): ensureMenuFile runs again
EnsureMenuFileAgain(fault) ==
    /\ ~panicked
    /\ file' = EnsureMenuFile(file, fault)
    /\ UNCHANGED << mu, torn, regV, subsV, reqV, envV >>

\* package app serving requests one at a time, seeded again at any moment
NextAppSeed ==
    \/ AppRequest("r1")
    \/ \E fault \in SeedFaults : EnsureMenuFileAgain(fault)
SpecAppSeed == Init /\ [][NextAppSeed]_vars

(* ---------------------- the monolithic server -------------------------- *)

\* getMenu, addMenuItem, deleteMenuItem: mu.Lock() (held until the handler returns)
MonoLock(t) ==
    /\ reqs[t].pc = "mlock" /\ mu = None
    /\ mu' = t
    /\ Continue(t, [reqs[t] EXCEPT !.pc = "read"])
    /\ UNCHANGED << file, torn, regV, subsV, nreq, hist, envV >>

\* getMenu after the lock: 200 and the raw bytes, 200 and [] when the file
\* does not exist, 500 on another error
MonoGetMenu(t) ==
    /\ reqs[t].pc = "read" /\ mu = t /\ reqs[t].op = "get"
    /\ \E ioerr \in BOOLEAN :
         LET r == ReadFile(file, ioerr) IN
         CASE r.err = "none"     -> Respond(t, 200, r.data)
           [] r.err = "notexist" -> Respond(t, 200, EmptyArrayBytes)
           [] OTHER              -> Respond(t, 500, EmptyBytes)
    /\ mu' = None
    /\ UNCHANGED << file, torn, regV, subsV, nreq, hist, envV >>

\* addMenuItem and deleteMenuItem after the lock: the read (errors ignored)
\* and the new menu
MonoReadModify(t) ==
    /\ reqs[t].pc = "read" /\ mu = t /\ reqs[t].op # "get"
    /\ \E ioerr \in BOOLEAN :
         LET menu == MonoReadMenu(file, ioerr) IN
         Continue(t, [reqs[t] EXCEPT !.pc = "wopen",
                        !.menu = IF reqs[t].op = "add"
                                 THEN AppendItem(menu, reqs[t].item)
                                 ELSE RemoveItem(menu, reqs[t].id)])
    /\ UNCHANGED << storeV, regV, subsV, nreq, hist, envV >>

\* json.MarshalIndent, then os.WriteFile opens the file; on failure 500 and
\* the deferred mu.Unlock()
MonoWriteOpen(t) ==
    /\ reqs[t].pc = "wopen" /\ mu = t
    /\ \E fail \in BOOLEAN :
         IF fail
         THEN /\ Respond(t, 500, EmptyBytes)
              /\ file' = file
              /\ mu' = None
         ELSE /\ Continue(t, [reqs[t] EXCEPT !.pc = "wwrite",
                                !.data = MarshalIndent(reqs[t].menu)])
              /\ file' = Truncated
              /\ mu' = mu
    /\ UNCHANGED << torn, regV, subsV, nreq, hist, envV >>

\* os.WriteFile writes the bytes and closes; on failure 500 and the deferred
\* mu.Unlock()
MonoWriteData(t) ==
    /\ reqs[t].pc = "wwrite" /\ mu = t
    /\ \E fail \in BOOLEAN :
         IF fail
         THEN /\ Respond(t, 500, EmptyBytes)
              /\ \E left \in TornBytes : file' = FileOf(left)
              /\ torn' = TRUE
              /\ mu' = None
         ELSE /\ Continue(t, [reqs[t] EXCEPT !.pc = "block"])
              /\ file' = FileOf(reqs[t].data)
              /\ torn' = torn
              /\ mu' = mu
    /\ UNCHANGED << regV, subsV, nreq, hist, envV >>

\* what addMenuItem answers: w.Write(updatedData)
MonoAddBody(r) == r.data

\* broadcastMenuUpdate, the response, and the deferred mu.Unlock()
MonoBroadcast(t) ==
    /\ Broadcast(t)
    /\ ~BroadcastPanics(clients, chans) =>
         IF reqs[t].op = "add"
         THEN Respond(t, 201, MonoAddBody(reqs[t]))
         ELSE Respond(t, 200, EmptyBytes)
    /\ mu' = None

\* what streamMenu sends before its loop: the file's bytes, or [] when the
\* read failed
MonoInitialEvents(r) == IF r.err = "none" THEN <<r.data>> ELSE <<EmptyArrayBytes>>

\* streamMenu: os.ReadFile without the lock, sendSSE, then the loop is entered
MonoStreamRead(s) ==
    /\ strm[s].pc = "read"
    /\ \E ioerr \in BOOLEAN :
         strm' = [strm EXCEPT ![s].pc = "loop",
                    ![s].sent = MonoInitialEvents(ReadFile(file, ioerr))]
    /\ UNCHANGED << storeV, regV, obsv, reqV, envV >>

MonoRequest(t) ==
    \/ HandleGetMenu(t, "mlock")
    \/ \E body \in Bodies : HandleAddMenuItem(t, body, "mlock")
    \/ \E id \in DeleteIds : HandleDeleteMenuItem(t, id, "mlock")
    \/ MonoLock(t)
    \/ MonoGetMenu(t)
    \/ MonoReadModify(t)
    \/ MonoWriteOpen(t)
    \/ MonoWriteData(t)
    \/ BroadcastLock(t)
    \/ MonoBroadcast(t)

MonoStream(s) ==
    \/ \E flusher \in BOOLEAN : StreamMenu(s, flusher)
    \/ StreamAddClientLock(s)
    \/ StreamAddClient(s, "read")
    \/ MonoStreamRead(s)
    \/ StreamRecv(s)
    \/ ClientDisconnect(s)
    \/ StreamDone(s)
    \/ StreamRemoveClientLock(s)
    \/ StreamRemoveClient(s)

\* a test of the monolithic server: make(chan []byte, 1), addClient, removeClient
MonoObserver(o) ==
    \/ ObserveMenuUpdates(o)
    \/ ObserverAddClientLock(o)
    \/ ObserverAddClient(o, TestChanCap)
    \/ ObserverRecv(o)
    \/ ObserverCleanup(o)
    \/ ObserverRemoveClientLock(o)
    \/ ObserverRemoveClient(o)

\* the monolithic server serving concurrent requests while a test observes
NextMono ==
    \/ \E t \in Reqs : MonoRequest(t)
    \/ \E o \in Observers : MonoObserver(o)
SpecMono == Init /\ [][NextMono]_vars

\* the steps a request handler of the monolithic server takes on its own
MonoRequestRuns(t) ==
    \/ MonoGetMenu(t)
    \/ MonoReadModify(t)
    \/ MonoWriteOpen(t)
    \/ MonoWriteData(t)
    \/ MonoBroadcast(t)

\* the steps in which it acquires a sync.Mutex
MonoRequestLocks(t) == MonoLock(t) \/ BroadcastLock(t)

\* the steps in which an observer releases clientsMu
ObserverUnlocks(o) == ObserverAddClient(o, TestChanCap) \/ ObserverRemoveClient(o)

\* the monolithic server under fair scheduling: a goroutine that can run does
\* run, and one waiting for a sync.Mutex gets it if it is free again and
\* again; nothing makes an observer receive
FairMono ==
    /\ \A t \in Reqs : WF_vars(MonoRequestRuns(t)) /\ SF_vars(MonoRequestLocks(t))
    /\ \A o \in Observers : WF_vars(ObserverUnlocks(o))
FairSpecMono == SpecMono /\ FairMono

(* ------------------- the Broadcaster on its own ------------------------ *)

\* a caller hands broadcastMenuUpdate a payload
Publish(t, data) ==
    /\ Accept(t)
    /\ Continue(t, [IdleReq EXCEPT !.op = "pub", !.data = data, !.pc = "block"])
    /\ UNCHANGED << storeV, regV, subsV, hist, envV >>

\* broadcastMenuUpdate returns to that caller
PublishReturn(t) ==
    /\ reqs[t].op = "pub"
    /\ Broadcast(t)
    /\ ~BroadcastPanics(clients, chans) => Respond(t, 200, EmptyBytes)
    /\ UNCHANGED mu

\* addClient, removeClient and broadcastMenuUpdate of the monolithic server
\* under a publisher, a streaming client and a test's observer
NextBcast ==
    \/ \E data \in Payloads : Publish("r1", data)
    \/ BroadcastLock("r1")
    \/ PublishReturn("r1")
    \/ \E s \in Streams : MonoStream(s)
    \/ \E o \in Observers : MonoObserver(o)
SpecBcast == Init /\ [][NextBcast]_vars

\* the steps a streaming handler takes on its own once it holds what it needs
StreamRuns(s) ==
    \/ StreamAddClient(s, "rlock")
    \/ \E ioerr \in BOOLEAN : AppStreamRead(s, ioerr)
    \/ StreamDone(s)
    \/ StreamRemoveClient(s)

\* the steps in which a streaming handler acquires a sync.Mutex
StreamLocks(s) ==
    \/ StreamAddClientLock(s)
    \/ AppStreamReadLock(s)
    \/ StreamRemoveClientLock(s)

\* the steps in which a request handler releases a sync.Mutex
RequestUnlocks(t) == (\E ioerr \in BOOLEAN : AppReadMenu(t, ioerr)) \/ AppBroadcast(t)

\* package app under fair scheduling: a goroutine that can run does run, and
\* a goroutine waiting for a sync.Mutex gets it if it is free again and again
FairAppStream ==
    /\ WF_vars(RequestUnlocks("r1"))
    /\ \A s \in Streams : WF_vars(StreamRuns(s)) /\ SF_vars(StreamLocks(s))
FairSpecAppStream == SpecAppStream /\ FairAppStream

(* ------------------------------ properties ----------------------------- *)

\* the Menu a file holds, as readMenu parses it (no entries when it does not parse)
PersistedItems(f) == ReadMenu(f, FALSE).menu.items

\* the orders in which n mutations can be applied one at a time
Perms(n) == { p \in [1..n -> 1..n] : \A i, j \in 1..n : p[i] = p[j] => i = j }

\* one mutation applied to a Menu
ApplyMutation(items, m) ==
    IF m.op = "add" THEN Append(items, m.item) ELSE FilterItems(items, m.id)

\* the mutations h[p[i]], h[p[i+1]], ... applied to a Menu one at a time
RECURSIVE ApplyInOrder(_, _, _, _)
ApplyInOrder(items, h, p, i) ==
    IF i > Len(h) THEN items
    ELSE ApplyInOrder(ApplyMutation(items, h[p[i]]), h, p, i + 1)

\* no request is being served
Quiescent == \A t \in Reqs : reqs[t].pc = "idle"

\* C1: once the concurrent mutations have finished (and no write failed half
\* way), the persisted Menu is the result of applying the successful ones one
\* at a time, in some order, to the Menu the service started with
C1_NoLostUpdate ==
    (Quiescent /\ ~torn) =>
        \E p \in Perms(Len(hist)) :
            PersistedItems(file) = ApplyInOrder(PersistedItems(file0), hist, p, 1)

\* C9: an add persists the Menu stored just before its write with the new
\* entry at the tail, and returns that list; the entry has the given dish and
\* who and a non-empty id
C9_AddAppendsAtTail ==
    [][\A t \in Reqs :
         /\ (AppWriteMenuOpen(t) /\ reqs[t].op = "add" /\ reqs'[t].pc = "wwrite") =>
                /\ reqs[t].menu.items = Append(PersistedItems(file), reqs[t].item)
                /\ reqs[t].item.id # ""
                /\ reqs[t].item.dish = reqs[t].body.dish
                /\ reqs[t].item.who = reqs[t].body.who
         /\ (AppWriteMenuData(t) /\ reqs[t].op = "add" /\ reqs'[t].pc = "block") =>
                PersistedItems(file') = reqs[t].menu.items
         /\ (AppBroadcast(t) /\ reqs[t].op = "add") =>
                (last'.resp = 201 /\ last'.out.items = reqs[t].menu.items)
      ]_vars

\* C10: the ids of the stored entries are pairwise distinct
C10_DistinctIds ==
    LET items == PersistedItems(file) IN
    \A i, j \in 1..Len(items) : i # j => items[i].id # items[j].id

\* C7: an add whose body does not decode, or whose dish or who is empty, is
\* answered 400 by the step that accepts it, and that step leaves the file,
\* every channel and the handler's goroutine as they were
C7_InvalidAddRejected ==
    [][\A t \in Reqs, b \in Bodies :
         (HandleAddMenuItem(t, b, "rlock") /\ (~b.ok \/ b.dish = "" \/ b.who = "")) =>
            /\ last'.op = "add" /\ last'.body = b /\ last'.resp = 400
            /\ reqs' = reqs
            /\ file' = file
            /\ chans' = chans
            /\ hist' = hist
      ]_vars

\* C7: an add without who was answered 400 while a subscriber was registered:
\* the file is as constructed and no channel holds anything
C7_Witness ==
    /\ last.op = "add" /\ last.resp = 400 /\ last.body.ok /\ last.body.who = ""
    /\ nreq = 1
    /\ clients # {}
    /\ file = file0
    /\ \A c \in clients : chans[c].buf = <<>>

\* C8: a remove with an empty id is answered 400 by the step that accepts it,
\* and that step leaves the file, every channel and the handler's goroutine as
\* they were
C8_EmptyIdRejected ==
    [][\A t \in Reqs, id \in DeleteIds :
         (HandleDeleteMenuItem(t, id, "rlock") /\ id = "") =>
            /\ last'.op = "del" /\ last'.id = "" /\ last'.resp = 400
            /\ reqs' = reqs
            /\ file' = file
            /\ chans' = chans
            /\ hist' = hist
      ]_vars

\* C8: a remove without id was answered 400 while a stream was registered:
\* the file is as constructed and no channel holds anything
C8_Witness ==
    /\ last.op = "del" /\ last.resp = 400 /\ last.id = ""
    /\ nreq = 1
    /\ clients # {}
    /\ file = file0
    /\ \A c \in clients : chans[c].buf = <<>>

\* C2: a successful add or remove puts the bytes it has just persisted, the
\* whole Menu, on the channel of every subscriber that is registered when it
\* publishes and whose buffer has room
C2_SnapshotWhereRoom ==
    [][\A t \in Reqs :
         MonoBroadcast(t) =>
            /\ file.data = MarshalIndent(reqs[t].menu)
            /\ \A c \in clients :
                 Len(chans[c].buf) < chans[c].cap =>
                    chans'[c].buf = Append(chans[c].buf, file.data)
      ]_vars

\* C2: a mutation has just published the stored Menu to a registered
\* subscriber, whose channel holds exactly that snapshot
C2_Witness ==
    /\ Quiescent
    /\ hist # <<>>
    /\ file.data.fmt = "indent"
    /\ \E c \in clients : c \in hist[Len(hist)].to /\ chans[c].buf = <<file.data>>

\* C2 as stated: a successful add or remove puts the bytes it has just
\* persisted on the channel of every subscriber registered when it publishes
C2_SnapshotToAll ==
    [][\A t \in Reqs :
         MonoBroadcast(t) =>
            \A c \in clients : chans'[c].buf = Append(chans[c].buf, file.data)
      ]_vars

\* C3: a publish leaves a registered channel whose buffer is full exactly as
\* it was, appends the payload to every other registered channel, and touches
\* no channel that is not registered
C3_DropOnFullOnly ==
    [][\A t \in Reqs :
         PublishReturn(t) =>
            /\ \A c \in clients :
                 IF Len(chans[c].buf) < chans[c].cap
                 THEN chans'[c].buf = Append(chans[c].buf, reqs[t].data)
                 ELSE chans'[c] = chans[c]
            /\ \A c \in (DOMAIN chans) \ clients : chans'[c] = chans[c]
            /\ ~panicked'
      ]_vars

\* C3: two publishes reached one subscriber, while another, registered for
\* both and full after the first, still holds the first payload only
C3_Witness ==
    /\ Len(hist) = 2
    /\ \E c1, c2 \in clients :
         /\ c1 # c2
         /\ c1 \in hist[1].to /\ c2 \in hist[1].to
         /\ Len(chans[c1].buf) = 1 /\ chans[c1].cap = 1
         /\ Len(chans[c2].buf) = 2
         /\ chans[c2].buf[1] = chans[c1].buf[1]
         /\ chans[c2].buf[2] # chans[c1].buf[1]

\* C4: once a cleanup (unsubscribe) has returned, the subscriber's channel is
\* out of the registry and closed, stays so, and its contents never grow
C4_UnsubscribedIsInert ==
    [][\A o \in Observers :
         obsv[o].cleaned =>
            /\ obsv[o].id \notin clients
            /\ chans[obsv[o].id].closed
            /\ obsv'[o].cleaned /\ obsv'[o].id = obsv[o].id
            /\ obsv[o].id \notin clients'
            /\ chans'[obsv[o].id].closed
            /\ Len(chans'[obsv[o].id].buf) <= Len(chans[obsv[o].id].buf)
            /\ ~panicked'
      ]_vars

\* C4: a mutation published after the observer had subscribed and its
\* cleanup had returned, and the observer's channel is empty
C4_Witness ==
    \E o \in Observers, i \in 1..Len(hist) :
        /\ obsv[o].cleaned
        /\ obsv[o].id >= 1
        /\ hist[i].ids >= obsv[o].id
        /\ obsv[o].id \notin hist[i].to
        /\ chans[obsv[o].id].buf = <<>>

\* the handler of a streaming connection has returned after it subscribed
Returned(s) == strm[s].pc = "done" /\ strm[s].resp = 200

\* C5: once the client has gone the handler returns; it returns through
\* removeClient, which finds the entry, and never runs again; from then on the
\* registry has no entry for the connection and its channel is closed
C5_StreamEndUnsubscribes ==
    /\ [](\A s \in Streams :
            Returned(s) => (strm[s].id \notin clients /\ chans[strm[s].id].closed))
    /\ [][\A s \in Streams :
            /\ strm[s].pc = "done" => strm'[s] = strm[s]
            /\ (~Returned(s) /\ Returned(s)') =>
                   (StreamRemoveClient(s) /\ strm[s].gone /\ strm[s].id \in clients)
         ]_vars
    /\ \A s \in Streams : (strm[s].gone ~> Returned(s))

\* C5: a client went away after a mutation was published, and its handler has
\* returned leaving no entry in the registry
C5_Witness ==
    \E s \in Streams :
        /\ Returned(s) /\ strm[s].gone
        /\ strm[s].id >= 1 /\ strm[s].id \notin clients
        /\ hist # <<>> /\ strm[s].id \in hist[1].to

\* C6: the handler of a streaming connection enters its loop having sent
\* exactly one event, and that event is the Menu the file holds when it reads
C6_FirstEventIsCurrent ==
    [][\A s \in Streams :
         (strm[s].pc = "read" /\ strm'[s].pc = "loop") =>
            /\ Len(strm'[s].sent) = 1
            /\ ~ReadMenu(file, FALSE).err =>
                   strm'[s].sent[1] = Marshal(ReadMenu(file, FALSE).menu)
      ]_vars

\* a Menu has an entry with this id
HasId(items, id) == \E i \in 1..Len(items) : items[i].id = id

\* C11: a remove whose id no stored entry has writes back the stored Menu as
\* it is, entry for entry, and then answers 200 having published what it wrote
C11_RemoveAbsentKeepsMenu ==
    [][\A t \in Reqs :
         /\ (/\ AppWriteMenuOpen(t) /\ reqs[t].op = "del" /\ reqs'[t].pc = "wwrite"
             /\ ~HasId(PersistedItems(file), reqs[t].id)) =>
                reqs[t].menu.items = PersistedItems(file)
         /\ (AppWriteMenuData(t) /\ reqs[t].op = "del" /\ reqs'[t].pc = "block") =>
                PersistedItems(file') = reqs[t].menu.items
         /\ (AppBroadcast(t) /\ reqs[t].op = "del") =>
                /\ last'.resp = 200
                /\ Len(hist') = Len(hist) + 1
                /\ reqs[t].data.items = reqs[t].menu.items
      ]_vars

\* the Menu left by the successful mutations so far, applied in the order in
\* which they returned
MenuOfHistory ==
    ApplyInOrder(PersistedItems(file0), hist, [i \in 1..Len(hist) |-> i], 1)

\* an add or remove returns to its caller with this step
Returns(t) == reqs[t].op \in {"add", "del"} /\ reqs[t].pc # "idle" /\ reqs'[t].pc = "idle"

\* C12: when an add or remove served on its own answers 5xx, the file holds
\* the Menu the earlier successful mutations left, and nothing was published
C12_FailedMutationKeepsMenu ==
    [][\A t \in Reqs :
         (Returns(t) /\ last'.resp >= 500) =>
            /\ PersistedItems(file') = MenuOfHistory
            /\ chans' = chans
            /\ hist' = hist
      ]_vars

\* C13: a read that meets no I/O error on a file that does not exist, or that
\* has zero bytes, gives the empty Menu: list answers 200 with the empty
\* array, add goes on with its entry alone, remove with nothing
C13_MissingOrEmptyFileReadsEmpty ==
    [][\A t \in Reqs :
         (AppReadMenu(t, FALSE) /\ (~file.exists \/ file.data.kind = "empty")) =>
            CASE reqs[t].op = "get" ->
                   last'.resp = 200 /\ last'.out = Encode(Slice(<<>>))
              [] reqs[t].op = "add" ->
                   reqs'[t].pc = "wopen" /\ reqs'[t].menu.items = <<reqs[t].item>>
              [] OTHER ->
                   reqs'[t].pc = "wopen" /\ reqs'[t].menu.items = <<>>
      ]_vars

\* C13: list has answered 200 with the empty array on a file of zero bytes
\* that no request has written
C13_Witness ==
    /\ file = FileOf(EmptyBytes) /\ file0 = file /\ hist = <<>>
    /\ last.op = "get" /\ last.resp = 200
    /\ last.out.kind = "array" /\ last.out.items = <<>>

\* C14: ensureMenuFile leaves a file that exists exactly as it is, whatever
\* it holds; when no file exists it writes the two-entry default Menu, or,
\* when its write fails, leaves no file, an empty one or a prefix
C14_SeedOnlyWhenMissing ==
    [][\A fault \in SeedFaults :
         EnsureMenuFileAgain(fault) =>
            /\ file.exists => file' = file
            /\ (~file.exists /\ fault = "none") =>
                   (file' = FileOf(MarshalIndent(defaultMenu))
                    /\ Len(PersistedItems(file')) = 2)
            /\ ~file.exists =>
                   file' \in { FileOf(MarshalIndent(defaultMenu)), file,
                               FileOf(EmptyBytes), FileOf(MalformedBytes) }
      ]_vars

\* C14: the service was constructed on a file holding the test Menu, which
\* seeding left alone, and requests have been served since
C14_Witness ==
    /\ file0 = FileOf(Marshal(testMenu))
    /\ file = file0
    /\ nreq = MaxReqs
    /\ Quiescent

\* C14: a second call of ensureMenuFile leaves the file identical to what the
\* first call left
C14_SecondCallChangesNothing ==
    [][\A fault \in SeedFaults : EnsureMenuFileAgain(fault) => file' = file]_vars

\* every task of package app
AppTasks == Reqs \cup Streams \cup Observers

\* the lock a task is waiting for, if any
WaitsForMu(x) ==
    \/ x \in Reqs /\ reqs[x].pc = "rlock"
    \/ x \in Streams /\ strm[x].pc = "rlock"
WaitsForClientsMu(x) ==
    \/ x \in Reqs /\ reqs[x].pc = "block"
    \/ x \in Streams /\ strm[x].pc \in {"alock", "dlock"}
    \/ x \in Observers /\ obsv[x].pc \in {"alock", "dlock"}

\* C15: no task holds mu and clientsMu together, and none waits for one of
\* them while it holds the other
C15_LocksNeverNested ==
    \A x \in AppTasks :
        /\ ~(mu = x /\ clientsMu = x)
        /\ WaitsForClientsMu(x) => mu # x
        /\ WaitsForMu(x) => clientsMu # x

\* C15: a streaming handler holds mu in readMenu while a request handler
\* holds clientsMu in broadcastMenuUpdate
C15_Witness ==
    /\ mu = "s1" /\ strm["s1"].pc = "read"
    /\ clientsMu = "r1" /\ reqs["r1"].pc = "bsend"

\* the statuses of success
Success == {200, 201}

\* C16: the step in which an add or remove returns success is the step that
\* published its bytes, at most one send to each registered channel; a step
\* in which one returns failure publishes nothing; and no channel grows in
\* any other step
C16_PublishOnceBeforeResponse ==
    [][/\ \A t \in Reqs :
            (Returns(t) /\ last'.resp \in Success) =>
                /\ Len(hist') = Len(hist) + 1
                /\ \A c \in clients :
                     chans'[c].buf \in {chans[c].buf, Append(chans[c].buf, reqs[t].data)}
                /\ \A c \in (DOMAIN chans) \ clients : chans'[c] = chans[c]
       /\ \A t \in Reqs :
            (Returns(t) /\ last'.resp \notin Success) =>
                (chans' = chans /\ hist' = hist)
       /\ (\E c \in DOMAIN chans : Len(chans'[c].buf) > Len(chans[c].buf)) =>
            \E t \in Reqs : Returns(t) /\ last'.resp \in Success
      ]_vars

\* C16: one add has returned 201 and a subscriber registered at its publish
\* holds exactly one payload
C16_Witness ==
    /\ Len(hist) = 1 /\ hist[1].op = "add"
    /\ last.op = "add" /\ last.resp = 201
    /\ \E c \in hist[1].to : Len(chans[c].buf) = 1

\* C17: every completed write of an add or remove leaves a JSON array in the
\* file, and every list answered with 200 carries a JSON array
C17_ArrayNeverNull ==
    [][\A t \in Reqs :
         /\ (reqs[t].pc = "wwrite" /\ reqs'[t].pc = "block") =>
                file'.data.kind = "array"
         /\ (reqs[t].op = "get" /\ reqs[t].pc # "idle" /\ reqs'[t].pc = "idle"
                /\ last'.resp = 200) =>
                last'.out.kind = "array"
      ]_vars

\* a writeMenu has opened (and so truncated) the file and has not yet
\* written its bytes
WriteInProgress == \E u \in Reqs : reqs[u].pc = "wwrite" /\ file = Truncated

\* C18: no read of the file (in list, add, remove or at the start of a
\* stream) sees it as a write still in progress has left it
C18_NoPartialRead ==
    [][/\ \A t \in Reqs : AppReadMenu(t, FALSE) => ~WriteInProgress
       /\ \A s \in Streams : AppStreamRead(s, FALSE) => ~WriteInProgress
      ]_vars

\* the ids that subscribers hold or have held
IdsHandedOut ==
    ({strm[s].id : s \in Streams} \cup {obsv[o].id : o \in Observers}) \ {0}

\* C19: the counter never goes back, and an id that enters the registry is
\* the counter's new value, greater than the old one and than every id a
\* subscriber holds or has held, registered or not
C19_IdsIncreaseNeverReused ==
    [][/\ nextClientID' >= nextClientID
       /\ \A c \in clients' \ clients :
            /\ c = nextClientID' /\ c > nextClientID
            /\ c \notin 1..Len(chans)
            /\ \A d \in IdsHandedOut \cup clients : d < c
       /\ \A s \in Streams, o \in Observers :
            strm'[s].id # 0 => strm'[s].id # obsv'[o].id
      ]_vars

\* C19: the stream subscribed with id 1 and unsubscribed, and the observer
\* that subscribed afterwards holds id 2
C19_Witness ==
    /\ \E s \in Streams : strm[s].id = 1 /\ strm[s].pc = "done"
    /\ 1 \notin clients /\ chans[1].closed
    /\ \E o \in Observers : obsv[o].id = 2 /\ 2 \in clients

\* the ids removeClient can be called with that have no entry: 0, the ids
\* already removed, and the next id not yet handed out
Unregistered == (0..(nextClientID + 1)) \ clients

\* C20: removeClient on an id without an entry changes neither the registry
\* nor any channel; and the step in which an observer's
\* repeated cleanup returns leaves registry, channels and counter as they
\* were, without a panic
C20_RemoveAbsentIsNoOp ==
    [][/\ \A id \in Unregistered :
            /\ RemoveClientReg(clients, id) = clients
            /\ RemoveClientChans(clients, chans, id) = chans
       /\ \A o \in Observers :
            (obsv[o].pc = "remove" /\ obsv'[o].pc = "sub" /\ obsv[o].id \notin clients) =>
                /\ clients' = clients
                /\ chans' = chans
                /\ nextClientID' = nextClientID
                /\ ~panicked'
      ]_vars

\* C20: the observer's cleanup has returned once, was called again and holds
\* the lock in removeClient, while another subscriber is registered
C20_Witness ==
    \E o \in Observers :
        /\ obsv[o].cleaned /\ obsv[o].pc = "remove" /\ clientsMu = o
        /\ obsv[o].id \notin clients /\ chans[obsv[o].id].closed
        /\ clients # {}

\* C21: a task that has opened the file for writing and has not yet written
\* its bytes holds mu
C21_WritesUnderMu ==
    \A t \in Reqs : reqs[t].pc = "wwrite" => mu = t

\* C22: a request that has been accepted returns, and holds no lock then
C22_MutationCompletes ==
    \A t \in Reqs :
        (reqs[t].pc # "idle") ~> (reqs[t].pc = "idle" /\ mu # t /\ clientsMu # t)

\* C22: a mutation is inside broadcastMenuUpdate while a registered channel
\* is full, and an earlier mutation has returned
C22_Witness ==
    \E t \in Reqs :
        /\ reqs[t].pc = "bsend" /\ clientsMu = t /\ reqs[t].op \in {"add", "del"}
        /\ \E c \in clients : Len(chans[c].buf) = chans[c].cap
        /\ Len(hist) = 1

\* a request of the monolithic server waits for mu
MonoWaitsForMu(t) == reqs[t].pc = "mlock"

\* C23: in the monolithic server the holder of clientsMu waits for no lock,
\* the holder of mu waits for none but clientsMu, and a lock holder that
\* does not wait can take its next step; so every wait for a lock ends at a
\* task that can run
C23_NoDeadlock ==
    /\ \A t \in Reqs :
         /\ clientsMu = t => ~MonoWaitsForMu(t) /\ ~WaitsForClientsMu(t)
         /\ mu = t => ~MonoWaitsForMu(t)
         /\ (clientsMu = t \/ (mu = t /\ ~WaitsForClientsMu(t))) =>
                ENABLED MonoRequestRuns(t)
    /\ \A o \in Observers :
         /\ mu # o
         /\ clientsMu = o => ENABLED ObserverUnlocks(o)

\* C23: one request holds mu and waits for clientsMu, which an observer
\* holds in removeClient, while the other request waits for mu
C23_Witness ==
    \E t, u \in Reqs, o \in Observers :
        /\ mu = t /\ WaitsForClientsMu(t)
        /\ clientsMu = o /\ obsv[o].pc = "remove"
        /\ u # t /\ MonoWaitsForMu(u)

\* the entries of a Menu whose id differs from id, in their order
KeptItems(items, id) ==
    LET Differs(e) == e.id # id IN SelectSeq(items, Differs)

\* C24: what a remove is about to persist is the stored Menu without the
\* entries of the given id, the others in their order; its write persists
\* just that
C24_RemoveKeepsTheOthers ==
    [][\A t \in Reqs :
         /\ (AppWriteMenuOpen(t) /\ reqs[t].op = "del" /\ reqs'[t].pc = "wwrite") =>
                reqs[t].menu.items = KeptItems(PersistedItems(file), reqs[t].id)
         /\ (AppWriteMenuData(t) /\ reqs[t].op = "del" /\ reqs'[t].pc = "block") =>
                PersistedItems(file') = reqs[t].menu.items
      ]_vars

\* C25: every registered channel is open and no goroutine has panicked; a
\* channel is closed in the step that removes its entry and in no other, by
\* the task that holds clientsMu; a closed channel stays closed
C25_NoSendOnClosed ==
    [][/\ \A c \in clients' : ~chans'[c].closed
       /\ ~panicked'
       /\ \A c \in DOMAIN chans :
            /\ (chans'[c].closed /\ ~chans[c].closed) <=> (c \in clients /\ c \notin clients')
            /\ chans[c].closed => chans'[c].closed
            /\ (chans'[c].closed # chans[c].closed) => (clientsMu # None /\ clientsMu' = None)
      ]_vars

\* C25: a publish ran with a channel registered after another channel, handed
\* out earlier, had been removed and closed
C25_Witness ==
    \E i \in 1..Len(hist), c \in DOMAIN chans :
        /\ chans[c].closed
        /\ c <= hist[i].ids /\ c \notin hist[i].to
        /\ hist[i].to # {}

\* C26: when no request is being served and no write failed half way, the
\* newest payload in the channel of an observer that the last publish
\* reached is the content of the file
C26_LastSnapshotIsPersisted ==
    \A o \in Observers :
        (/\ Quiescent /\ ~torn
         /\ obsv[o].pc = "sub" /\ ~obsv[o].cleaned
         /\ hist # <<>> /\ obsv[o].id \in hist[Len(hist)].to
         /\ chans[obsv[o].id].buf # <<>>) =>
            LET buf == chans[obsv[o].id].buf IN buf[Len(buf)] = file.data

\* the Menu after the first i successful mutations
MenuAt(i) ==
    ApplyInOrder(PersistedItems(file0), SubSeq(hist, 1, i), [j \in 1..i |-> j], 1)

\* the points of the history at which the Menu had these entries
Versions(items) == {i \in 0..Len(hist) : MenuAt(i) = items}

\* C27: of two snapshots a stream has sent, the later one is not older than
\* the earlier one (whenever both are Menus of the history)
C27_StreamNeverGoesBack ==
    \A s \in Streams :
        \A j, k \in 1..Len(strm[s].sent) :
            (/\ j < k
             /\ Versions(strm[s].sent[j].items) # {}
             /\ Versions(strm[s].sent[k].items) # {}) =>
                \E a \in Versions(strm[s].sent[j].items),
                   b \in Versions(strm[s].sent[k].items) : a <= b

\* the steps of a list request
ListSteps(t) ==
    \/ HandleGetMenu(t, "rlock")
    \/ reqs[t].op = "get" /\ AppReadMenuLock(t)
    \/ reqs[t].op = "get" /\ \E ioerr \in BOOLEAN : AppReadMenu(t, ioerr)

\* the steps of subscribe and of unsubscribe, by a stream or an observer
SubscribeSteps ==
    \/ \E s \in Streams : StreamAddClientLock(s) \/ StreamAddClient(s, "rlock")
    \/ \E o \in Observers :
         ObserveMenuUpdates(o) \/ ObserverAddClientLock(o)
            \/ ObserverAddClient(o, StreamChanCap)
UnsubscribeSteps ==
    \/ \E s \in Streams : StreamRemoveClientLock(s) \/ StreamRemoveClient(s)
    \/ \E o \in Observers :
         ObserverCleanup(o) \/ ObserverRemoveClientLock(o) \/ ObserverRemoveClient(o)

\* the id a subscribe or unsubscribe step is about
ActingIds ==
    {strm'[s].id : s \in {x \in Streams : strm'[x] # strm[x]}}
        \cup {obsv'[o].id : o \in {x \in Observers : obsv'[x] # obsv[x]}}

\* C28: a step of list, subscribe or unsubscribe leaves the file as it is and
\* appends to no channel; list leaves registry and channels as they are;
\* subscribe and unsubscribe leave the entry and the channel of every other
\* subscriber as they are
C28_ListAndSubscriptionFrame ==
    [][/\ ((\E t \in Reqs : ListSteps(t)) \/ SubscribeSteps \/ UnsubscribeSteps) =>
            /\ file' = file
            /\ \A c \in DOMAIN chans : chans'[c].buf = chans[c].buf
            /\ \A c \in (DOMAIN chans') \ (DOMAIN chans) : chans'[c].buf = <<>>
       /\ (\E t \in Reqs : ListSteps(t)) => (chans' = chans /\ clients' = clients)
       /\ (SubscribeSteps \/ UnsubscribeSteps) =>
            \A c \in (DOMAIN chans) \ ActingIds :
                /\ chans'[c] = chans[c]
                /\ (c \in clients') <=> (c \in clients)
      ]_vars

\* C28: a list has been answered, and a stream has subscribed and
\* unsubscribed while an observer was registered with a payload buffered
C28_Witness ==
    \E s \in Streams, o \in Observers :
        /\ last.op = "get" /\ last.resp = 200
        /\ strm[s].pc = "done" /\ strm[s].id > obsv[o].id
        /\ obsv[o].id \in clients
        /\ chans[obsv[o].id].buf # <<>>

\* C29: in the monolithic server a mutation that waits for clientsMu or
\* delivers to the subscribers does not hold mu
C29_MuFreeWhilePublishing ==
    \A t \in Reqs : reqs[t].pc \in {"block", "bsend"} => mu # t

\* C30: in the monolithic server an add or remove whose read finds a file
\* that does not parse returns a failure from that step, and leaves the file
\* and the channels as they are
C30_MalformedFileFailsMutation ==
    [][\A t \in Reqs :
         (MonoReadModify(t) /\ file.exists /\ file.data.kind = "malformed") =>
            /\ reqs'[t].pc = "idle" /\ last'.resp >= 500
            /\ file' = file
            /\ chans' = chans
      ]_vars

====
